---- MODULE Spec2Model ----
(***************************************************************************)
(* Model of Examen_2/Punto 3 - Estacionariedad y Filtros/punto_3.py:       *)
(* animar_medias_tiempo(x, n_realizaciones, a, tau), its nested callback   *)
(* update(frame), the FuncAnimation driver that feeds the callback, and    *)
(* the three experiment invocations at module level.                       *)
(*                                                                         *)
(* Numbers are exact rationals <<num, den>> (den > 0, lowest terms).  The  *)
(* inputs enumerated below are small integers and a is 1, 2 or -4, so every  *)
(* product and sum the float code computes is exactly representable and the *)
(* rational value is the float value; only the division of np.mean by a    *)
(* count that is not a power of two rounds, by less than 1e-15.            *)
(***************************************************************************)
EXTENDS Integers, Sequences, FiniteSets, TLC

VARIABLES
    x,                \* argument: the input ensemble (ndarray)
    n_realizaciones,  \* argument: the realization count
    a,                \* argument: the filter parameter
    tau,              \* argument: the lag between t1 and t2
    y_fir,            \* local of animar_medias_tiempo (line 30)
    y_nl,             \* local of animar_medias_tiempo (line 33)
    fir_lines,        \* artists of the top panel (line 47)
    nl_lines,         \* artists of the bottom panel (line 48)
    vline1_fir,       \* xdata of the t1 marker, top panel
    vline2_fir,       \* xdata of the t2 marker, top panel
    vline1_nl,        \* xdata of the t1 marker, bottom panel
    vline2_nl,        \* xdata of the t2 marker, bottom panel
    txt1,             \* text annotation of the top panel
    txt2,             \* text annotation of the bottom panel
    pc,               \* position of the calling flow
    err,              \* the exception raised, "none" if none
    frame_seq,        \* the driver's iterator: frames already taken from it
    ult,              \* the last invocation of update: <<>> or <<[frame, ret]>>
    pasada,           \* passes over the frame sequence started by the driver
    anim,             \* the animation: "none", "corriendo", "detenida"
    exp,              \* experiment of the script being run (0: a lone call)
    ventanas          \* display windows that are open

vars == <<x, n_realizaciones, a, tau, y_fir, y_nl, fir_lines, nl_lines,
          vline1_fir, vline2_fir, vline1_nl, vline2_nl, txt1, txt2,
          pc, err, frame_seq, ult, pasada, anim, exp, ventanas>>

args == <<x, n_realizaciones, a, tau>>
procesado == <<y_fir, y_nl>>
lineas == <<fir_lines, nl_lines>>
marcadores == <<vline1_fir, vline2_fir, vline1_nl, vline2_nl>>
textos == <<txt1, txt2>>
driver == <<frame_seq, ult, pasada, anim>>

----------------------------------------------------------------------------
(* Program constants *)

ColumnasDoc == 1000     \* columns of a well-formed ensemble
LargoTiempo == 1000     \* tiempo = np.arange(1000)
LimiteT2 == 1000        \* if t2 >= 1000: return []
FinFrames == 1000       \* range(0, 1000 - tau, 10)
PasoFrames == 10        \* range(0, 1000 - tau, 10)
MaxLineas == 10         \* min(n_realizaciones, 10)
TauScript == 100        \* tau of the three invocations
AScript == 2            \* a of the three invocations

(* Bounds of the model *)

MaxR == 2               \* most rows of an ensemble, most realizations asked
MaxPasadas == 2         \* passes over the frame sequence that are followed

----------------------------------------------------------------------------
(* Float arithmetic, exact on the values that arise *)

AbsInt(k) == IF k < 0 THEN -k ELSE k

RECURSIVE GCD(_, _)
GCD(m, n) == IF n = 0 THEN m ELSE GCD(n, m % n)

\* the number num/den; den /= 0
Rat(num, den) ==
    LET g == GCD(AbsInt(num), AbsInt(den))
        s == IF den < 0 THEN -1 ELSE 1
    IN  <<(s * num) \div g, (s * den) \div g>>

RInt(k) == <<k, 1>>
RAdd(p, q) == Rat(p[1] * q[2] + q[1] * p[2], p[2] * q[2])
RSub(p, q) == Rat(p[1] * q[2] - q[1] * p[2], p[2] * q[2])
RMul(p, q) == Rat(p[1] * q[1], p[2] * q[2])
RDiv(p, q) == Rat(p[1] * q[2], p[2] * q[1])
RAbs(p) == <<AbsInt(p[1]), p[2]>>

\* x ** k for an integer k >= 0, by repeated multiplication
RECURSIVE RPow(_, _)
RPow(p, k) == IF k = 0 THEN RInt(1) ELSE RMul(p, RPow(p, k - 1))

----------------------------------------------------------------------------
(* ndarrays: a shape and the rows; a 1-D array has its entries in data *)

Array2(rows, cols, data) == [shape |-> <<rows, cols>>, data |-> data]
Unbound == [shape |-> <<>>, data |-> <<>>]

\* np.array(list of rows): an empty list gives the 1-D array of shape (0,)
NpArray(rowlist) ==
    IF Len(rowlist) = 0
    THEN [shape |-> <<0>>, data |-> <<>>]
    ELSE Array2(Len(rowlist), Len(rowlist[1]), rowlist)

NRows(arr) == arr.shape[1]
\* x[i] for 0 <= i: defined when i < NRows
HasRow(arr, i) == Len(arr.shape) >= 1 /\ i >= 0 /\ i < arr.shape[1]
RowAt(arr, i) == arr.data[i + 1]
\* row[n] for 0 <= n < Len(row)
At(row, n) == row[n + 1]

----------------------------------------------------------------------------
(* scipy.signal.lfilter(b, [1], row): with a one-element denominator the   *)
(* output is the full convolution of b with the row, cut to the row's      *)
(* length.                                                                 *)

\* sum over j in 0..m of b[j] * row[k - j], the terms with k - j in range
RECURSIVE ConvTerm(_, _, _, _)
ConvTerm(bb, row, k, m) ==
    IF m < 0 THEN RInt(0)
    ELSE LET rest == ConvTerm(bb, row, k, m - 1)
         IN  IF k - m >= 0 /\ k - m < Len(row)
             THEN RAdd(rest, RMul(At(bb, m), At(row, k - m)))
             ELSE rest

\* np.convolve(b, row), mode "full": Len(b) + Len(row) - 1 samples
Convolve(bb, row) ==
    [k1 \in 1..(Len(bb) + Len(row) - 1) |-> ConvTerm(bb, row, k1 - 1, Len(bb) - 1)]

\* the full convolution, not cut to the row's length
lfilterCompleto(bb, den, row) ==
    Convolve([j \in 1..Len(bb) |-> RDiv(bb[j], den[1])], row)

lfilter(bb, den, row) ==
    LET bn == [j \in 1..Len(bb) |-> RDiv(bb[j], den[1])]
        out_full == Convolve(bn, row)
    IN  SubSeq(out_full, 1, Len(out_full) - Len(bn) + 1)

\* the coefficients with the last one written 1/2*a, which is a/2
CoeficientesSinParentesis(aa) ==
    <<RInt(1), RDiv(RInt(-1), RInt(aa)), RMul(RDiv(RInt(1), RInt(2)), RInt(aa))>>

\* b = [1, -1/a, 1/(2*a)], a /= 0
Coeficientes(aa) ==
    <<RInt(1), RDiv(RInt(-1), RInt(aa)), RDiv(RInt(1), RMul(RInt(2), RInt(aa)))>>

\* y_fir = np.array([lfilter(b, [1], x[i]) for i in range(n_realizaciones)])
FiltrarFIR(xx, n, aa) ==
    NpArray([i1 \in 1..n |-> lfilter(Coeficientes(aa), <<RInt(1)>>, RowAt(xx, i1 - 1))])

\* x * 2 in the place of x ** 2
Doble(xx) ==
    [shape |-> xx.shape,
     data |-> [i1 \in 1..Len(xx.data) |->
                 [n1 \in 1..Len(xx.data[i1]) |-> RMul(xx.data[i1][n1], RInt(2))]]]

\* y_nl = x ** 2
Cuadrado(xx) ==
    [shape |-> xx.shape,
     data |-> [i1 \in 1..Len(xx.data) |->
                 [n1 \in 1..Len(xx.data[i1]) |-> RPow(xx.data[i1][n1], 2)]]]

----------------------------------------------------------------------------
(* The inputs that are enumerated *)

ColsCortas == 3         \* columns of the ensembles of the wrong shape

Ciclo == <<-2, 0, 3>>
Clases == {"rampa", "ciclo"}

\* a row of the ensemble: 1, 2, 3, 4, ... or -2, 0, 3, -2, 0, 3, ...
Fila(clase, cols) ==
    [n1 \in 1..cols |->
        IF clase = "rampa" THEN RInt(n1) ELSE RInt(Ciclo[((n1 - 1) % 3) + 1])]

Conjunto(clases, cols) ==
    Array2(Len(clases), cols, [i1 \in 1..Len(clases) |-> Fila(clases[i1], cols)])

ClasesHasta(r) == UNION {[1..k -> Clases] : k \in 0..r}

Ensembles == {Conjunto(cs, c) : cs \in ClasesHasta(MaxR), c \in {ColumnasDoc, ColsCortas}}
EnsemblesScript == {Conjunto(cs, ColumnasDoc) : cs \in [1..MaxR -> Clases]}

AChoices == {0, 1, AScript, -4}
TauChoices == {900, 989, 995, 1000, 1010}

----------------------------------------------------------------------------
(* animar_medias_tiempo *)

Entrada ==
    /\ y_fir = Unbound /\ y_nl = Unbound
    /\ fir_lines = <<>> /\ nl_lines = <<>>
    /\ vline1_fir = <<>> /\ vline2_fir = <<>>
    /\ vline1_nl = <<>> /\ vline2_nl = <<>>
    /\ txt1 = <<>> /\ txt2 = <<>>
    /\ err = "none"
    /\ frame_seq = 0
    /\ ult = <<>>
    /\ pasada = 0
    /\ anim = "none"

Init ==
    /\ x \in Ensembles
    /\ n_realizaciones \in 0..MaxR
    /\ a \in AChoices
    /\ tau \in TauChoices
    /\ Entrada
    /\ pc = "llamada"
    /\ exp = 0
    /\ ventanas = {}

\* lines 27-33: the coefficients, the FIR output, the squared output
Procesar ==
    /\ pc = "llamada"
    /\ IF a = 0
       THEN /\ err' = "ZeroDivisionError" /\ pc' = "terminado"
            /\ UNCHANGED procesado
       ELSE IF \E i \in 0..(n_realizaciones - 1) : ~HasRow(x, i)
       THEN /\ err' = "IndexError" /\ pc' = "terminado"
            /\ UNCHANGED procesado
       ELSE /\ y_fir' = FiltrarFIR(x, n_realizaciones, a)
            /\ y_nl' = Cuadrado(x)
            /\ pc' = "procesado"
            /\ UNCHANGED err
    /\ UNCHANGED <<args, lineas, marcadores, textos, driver, exp, ventanas>>

\* range(n) of Python: 0 .. n-1, empty when n <= 0
PyRangeN(n) == 0..(n - 1)

Min(m, n) == IF m < n THEN m ELSE n

\* a plot that takes a row of any length
PlotSinComprobar(fila) == TRUE

\* ax.plot(tiempo, fila) accepts the row when both have the same length
PlotOK(fila) == Len(fila) = LargoTiempo

Artista(clase, i) == [clase |-> clase, idx |-> i]

\* the artists [ax.plot(tiempo, y[i])[0] for i in range(min(n, 10))]
Lineas(clase, n) ==
    [i1 \in 1..(IF Min(n, MaxLineas) < 0 THEN 0 ELSE Min(n, MaxLineas)) |->
        Artista(clase, i1 - 1)]

\* lines 36-64: the figure, the traces, the four markers at 0, the two empty texts
CrearFigura ==
    /\ pc = "procesado"
    /\ IF \E i \in PyRangeN(Min(n_realizaciones, MaxLineas)) :
             ~PlotOK(RowAt(y_fir, i)) \/ ~PlotOK(RowAt(y_nl, i))
       THEN /\ err' = "ValueError" /\ pc' = "terminado"
            /\ UNCHANGED <<lineas, marcadores, textos>>
       ELSE /\ fir_lines' = Lineas("fir_line", n_realizaciones)
            /\ nl_lines' = Lineas("nl_line", n_realizaciones)
            /\ vline1_fir' = <<0, 0>> /\ vline2_fir' = <<0, 0>>
            /\ vline1_nl' = <<0, 0>> /\ vline2_nl' = <<0, 0>>
            /\ txt1' = <<"">> /\ txt2' = <<"">>
            /\ pc' = "figura"
            /\ UNCHANGED err
    /\ UNCHANGED <<args, procesado, driver, exp, ventanas>>

----------------------------------------------------------------------------
(* update(frame) *)

\* y[:, t]: needs a 2-D array and -cols <= t < cols; a negative t counts from the end
ColOK(arr, t) ==
    /\ Len(arr.shape) = 2
    /\ t >= -arr.shape[2]
    /\ t < arr.shape[2]

Columna(arr, t) ==
    LET k == IF t < 0 THEN t + arr.shape[2] ELSE t
    IN  [i1 \in 1..arr.shape[1] |-> At(arr.data[i1], k)]

RECURSIVE Suma(_)
Suma(col) == IF Len(col) = 0 THEN RInt(0) ELSE RAdd(col[1], Suma(Tail(col)))

NaN == <<0, 0>>

\* the sum of the column, not divided by the count
SumaSinDividir(col) == IF Len(col) = 0 THEN NaN ELSE Suma(col)

\* np.mean(col): the sum over the count; nan for an empty column
Media(col) == IF Len(col) = 0 THEN NaN ELSE RDiv(Suma(col), RInt(Len(col)))

\* f"{v:.3f}": v to three decimals, ties to the even digit, as thousandths
\* (the whole part and the fraction apart, so that no product leaves 32 bits)
Formato3(v) ==
    IF v = NaN THEN 0
    ELSE LET ent == v[1] \div v[2]
             n   == 1000 * (v[1] - ent * v[2])
             fl  == n \div v[2]
             r2  == 2 * (n - fl * v[2])
             mil == IF r2 < v[2] THEN fl
                    ELSE IF r2 > v[2] THEN fl + 1
                    ELSE IF fl % 2 = 0 THEN fl ELSE fl + 1
         IN  1000 * ent + mil

\* lines 71-72
T1De(frame) == frame
T2De(frame) == frame + tau

\* the comparison of line 73 written t2 > 1000
SaltarEstricto(t2) == t2 > LimiteT2

\* line 73
Saltar(t2) == t2 >= LimiteT2

\* lines 89-90: the text of a panel
Texto(titulo, t1, m1, t2, m2) ==
    <<titulo, t1, Formato3(m1), t2, Formato3(m2), Formato3(RAbs(RSub(m2, m1)))>>

\* line 92
Retorno ==
    fir_lines \o nl_lines \o
    <<Artista("vline1_fir", 0), Artista("vline2_fir", 0), Artista("vline1_nl", 0),
      Artista("vline2_nl", 0), Artista("txt1", 0), Artista("txt2", 0)>>

\* what update(frame) does in the current state: "skip" (return []), "raise"
\* (IndexError at lines 77-80) or "ok" with the new markers and texts
Resultado(frame) ==
    LET t1 == T1De(frame)
        t2 == T2De(frame)
        nada == [res |-> "skip", ret |-> <<>>, v1 |-> <<>>, v2 |-> <<>>,
                 s1 |-> <<>>, s2 |-> <<>>]
    IN  IF Saltar(t2) THEN nada
        ELSE IF ~(ColOK(y_fir, t1) /\ ColOK(y_fir, t2) /\ ColOK(y_nl, t1) /\ ColOK(y_nl, t2))
        THEN [nada EXCEPT !.res = "raise"]
        ELSE [res |-> "ok", ret |-> Retorno,
              v1 |-> <<t1, t1>>, v2 |-> <<t2, t2>>,
              s1 |-> Texto("Media FIR", t1, Media(Columna(y_fir, t1)),
                           t2, Media(Columna(y_fir, t2))),
              s2 |-> Texto("Media x2", t1, Media(Columna(y_nl, t1)),
                           t2, Media(Columna(y_nl, t2)))]

\* lines 69-92, as one step
update(frame) ==
    LET r == Resultado(frame)
    IN  /\ ult' = <<[frame |-> frame, res |-> r.res, ret |-> r.ret]>>
        /\ err' = IF r.res = "raise" THEN "IndexError" ELSE err
        /\ IF r.res = "ok"
           THEN /\ vline1_fir' = r.v1 /\ vline2_fir' = r.v2
                /\ vline1_nl' = r.v1 /\ vline2_nl' = r.v2
                /\ txt1' = r.s1 /\ txt2' = r.s2
           ELSE UNCHANGED <<marcadores, textos>>

----------------------------------------------------------------------------
(* The animation: FuncAnimation(fig, update, frames=range(0, 1000 - tau, 10), *)
(* interval=200, blit=True), then plt.show().  No init_func is given, so the  *)
(* first item of the frames is drawn as the initial frame; repeat is left at  *)
(* its default, so a pass that is over is followed by another one.            *)

\* a range that takes its stop in
PyRangeCerrado(start, stop, step) ==
    LET largo == IF stop >= start THEN ((stop - start) \div step) + 1 ELSE 0
    IN  [k1 \in 1..largo |-> start + (k1 - 1) * step]

\* range(start, stop, step) of Python for step > 0, as the sequence of its items
PyRange(start, stop, step) ==
    LET largo == IF stop > start THEN (stop - start + step - 1) \div step ELSE 0
    IN  [k1 \in 1..largo |-> start + (k1 - 1) * step]

\* the frames without the lag taken off the stop
FramesSinTau == PyRange(0, FinFrames, PasoFrames)

Frames == PyRange(0, FinFrames - tau, PasoFrames)

\* repeat of FuncAnimation, not passed at line 95: the default
Repeat == TRUE

\* a show that does not wait for the window
ShowSinBloquear == TRUE

\* plt.show() returns once no window is open
ShowDevuelve == ventanas = {}

\* a timer that outlives its window
TimerSinVentana == pc = "show"

\* the window of the running call is open: its timer and callbacks are alive
VentanaAbierta == exp \in ventanas

\* the initial draw: update on the first item of a fresh frame sequence, nothing
\* when the sequence is empty
DibujoInicial ==
    IF Len(Frames) = 0
    THEN UNCHANGED <<marcadores, textos, err, ult>> /\ anim' = "corriendo"
    ELSE update(Frames[1])
         /\ anim' = IF Resultado(Frames[1]).res = "raise" THEN "detenida" ELSE "corriendo"

\* lines 95-97: the animation is created and the window is shown, which draws
\* the initial frame and starts the timer; the calling flow blocks in plt.show()
CrearAnimacion ==
    /\ pc = "figura"
    /\ pc' = "show"
    /\ ventanas' = ventanas \cup {exp}
    /\ DibujoInicial
    /\ frame_seq' = 0
    /\ pasada' = 1
    /\ UNCHANGED <<args, procesado, lineas, exp>>

\* a timer tick with an item left in the frame sequence
Avanzar ==
    /\ VentanaAbierta
    /\ anim = "corriendo"
    /\ frame_seq < Len(Frames)
    /\ update(Frames[frame_seq + 1])
    /\ anim' = IF Resultado(Frames[frame_seq + 1]).res = "raise"
               THEN "detenida" ELSE "corriendo"
    /\ frame_seq' = frame_seq + 1
    /\ UNCHANGED <<args, procesado, lineas, pc, pasada, exp, ventanas>>

\* a timer tick with the frame sequence used up: with repeat, the initial draw
\* again and a new frame sequence; without, the animation stops
Agotar ==
    /\ VentanaAbierta
    /\ anim = "corriendo"
    /\ frame_seq = Len(Frames)
    /\ pasada < MaxPasadas
    /\ IF Repeat
       THEN /\ DibujoInicial
            /\ frame_seq' = 0
            /\ pasada' = pasada + 1
       ELSE /\ anim' = "detenida"
            /\ UNCHANGED <<marcadores, textos, err, ult, frame_seq, pasada>>
    /\ UNCHANGED <<args, procesado, lineas, pc, exp, ventanas>>

\* the user closes the window
CerrarVentana ==
    /\ exp \in ventanas
    /\ ventanas' = ventanas \ {exp}
    /\ UNCHANGED <<args, procesado, lineas, marcadores, textos, pc, err,
                   driver, exp>>

\* plt.show() returns and with it animar_medias_tiempo
Retornar ==
    /\ pc = "show"
    /\ ShowDevuelve
    /\ pc' = "retorno"
    /\ anim' = "none"
    /\ UNCHANGED <<args, procesado, lineas, marcadores, textos, err,
                   frame_seq, ult, pasada, exp, ventanas>>

\* an exception raised inside the callback reaches the GUI event loop: some
\* backends print it and keep the window (CerrarVentana then applies), others
\* end the process
Terminar ==
    /\ pc = "show"
    /\ VentanaAbierta
    /\ anim = "detenida"
    /\ err # "none"
    /\ pc' = "terminado"
    /\ anim' = "none"
    /\ ventanas' = {}
    /\ UNCHANGED <<args, procesado, lineas, marcadores, textos, err,
                   frame_seq, ult, pasada, exp>>

Next ==
    \/ Procesar
    \/ CrearFigura
    \/ CrearAnimacion
    \/ Avanzar
    \/ Agotar
    \/ CerrarVentana
    \/ Retornar
    \/ Terminar

Spec == Init /\ [][Next]_vars


----------------------------------------------------------------------------
(* update called on any frame index, as a driver given other frames would *)

TausUnit == {-10, TauScript, 1000}
FramesUnit == {-1001, -1, 0, 10, 899, 900, 1000}

InitUnit ==
    /\ x \in Ensembles
    /\ n_realizaciones \in 0..MaxR
    /\ a \in AChoices
    /\ tau \in TausUnit
    /\ Entrada
    /\ pc = "llamada"
    /\ exp = 0
    /\ ventanas = {}

\* one call update(f); an exception it raises ends the caller
LlamarUpdate ==
    /\ pc = "figura"
    /\ \E f \in FramesUnit :
          /\ update(f)
          /\ pc' = IF Resultado(f).res = "raise" THEN "terminado" ELSE pc
    /\ UNCHANGED <<args, procesado, lineas, frame_seq, pasada, anim, exp, ventanas>>

NextUnit ==
    \/ Procesar
    \/ CrearFigura
    \/ LlamarUpdate

SpecUnit == InitUnit /\ [][NextUnit]_vars

----------------------------------------------------------------------------
(* The script, lines 104-126: three ensembles, each handed to              *)
(* animar_medias_tiempo with a=2, tau=100.  The 3000 realizations of line  *)
(* 104 are MaxR here, and the random draws are any ensemble of that shape. *)

InitScript ==
    /\ x = Unbound
    /\ n_realizaciones = MaxR
    /\ a = AScript
    /\ tau = TauScript
    /\ Entrada
    /\ pc = "script"
    /\ exp = 0
    /\ ventanas = {}

\* experiment k: its ensemble is generated and animar_medias_tiempo is entered
Generar(k) ==
    /\ x' \in EnsemblesScript
    /\ exp' = k
    /\ pc' = "llamada"
    /\ y_fir' = Unbound /\ y_nl' = Unbound
    /\ fir_lines' = <<>> /\ nl_lines' = <<>>
    /\ vline1_fir' = <<>> /\ vline2_fir' = <<>>
    /\ vline1_nl' = <<>> /\ vline2_nl' = <<>>
    /\ txt1' = <<>> /\ txt2' = <<>>
    /\ frame_seq' = 0
    /\ ult' = <<>>
    /\ pasada' = 0
    /\ anim' = "none"
    /\ UNCHANGED <<n_realizaciones, a, tau, err, ventanas>>

\* lines 104-107
GenerarRuido == pc = "script" /\ exp = 0 /\ Generar(1)

\* lines 113-118
GenerarAM == pc = "retorno" /\ exp = 1 /\ Generar(2)

\* lines 124-126
GenerarVariante == pc = "retorno" /\ exp = 2 /\ Generar(3)

NextScript ==
    \/ GenerarRuido
    \/ GenerarAM
    \/ GenerarVariante
    \/ Procesar
    \/ CrearFigura
    \/ CrearAnimacion
    \/ Avanzar
    \/ Agotar
    \/ CerrarVentana
    \/ Retornar

SpecScript == InitScript /\ [][NextScript]_vars

----------------------------------------------------------------------------
(* Properties *)

\* X[i, k], 0 for k < 0
Muestra(fila, k) == IF k < 0 THEN RInt(0) ELSE At(fila, k)

\* X[i,n] - X[i,n-1]/a + X[i,n-2]/(2a)
EcuacionFIR(fila, n, aa) ==
    RAdd(RSub(Muestra(fila, n), RDiv(Muestra(fila, n - 1), RInt(aa))),
         RDiv(Muestra(fila, n - 2), RInt(2 * aa)))

EsRampa(fila) == Len(fila) >= 4 /\ \A k \in 1..4 : fila[k] = RInt(k)

\* C1: when the processing step has run, y_fir has one row per realization
\* asked for (every row of x when n_realizaciones is its row count), and entry
\* n of row i is X[i,n] - X[i,n-1]/a + X[i,n-2]/(2a) with X[i,k] = 0 for k < 0,
\* for every n; from then on the rows keep their leading entries, and a row
\* starting 1, 2, 3, 4 filtered with a = 2 starts 1, 1.5, 2.25.
C1_FIR ==
    (y_fir # Unbound /\ n_realizaciones >= 1) =>
        /\ NRows(y_fir) = n_realizaciones
        /\ \A i \in 0..(n_realizaciones - 1) :
              /\ Len(RowAt(y_fir, i)) = Len(RowAt(x, i))
              /\ \A n \in 0..((IF pc = "procesado" THEN Len(RowAt(x, i)) ELSE 3) - 1) :
                    At(RowAt(y_fir, i), n) = EcuacionFIR(RowAt(x, i), n, a)
              /\ (a = 2 /\ EsRampa(RowAt(x, i))) =>
                    SubSeq(RowAt(y_fir, i), 1, 3) = <<<<1, 1>>, <<3, 2>>, <<9, 4>>>>

C1_Witness ==
    /\ pc = "procesado"
    /\ a = 2
    /\ x.shape = <<2, ColumnasDoc>>
    /\ n_realizaciones = 2
    /\ EsRampa(RowAt(x, 0))
    /\ SubSeq(RowAt(y_fir, 0), 1, 3) = <<<<1, 1>>, <<3, 2>>, <<9, 4>>>>
    /\ At(RowAt(y_fir, 1), 999) = EcuacionFIR(RowAt(x, 1), 999, 2)

\* C2: when the processing step has run, y_nl has the shape of x and every
\* entry is the square of the same entry of x, hence not negative; from then on
\* the rows keep their leading entries, and a row starting -2, 0, 3 gives 4, 0, 9.
C2_Cuadrado ==
    y_nl # Unbound =>
        /\ y_nl.shape = x.shape
        /\ Len(y_nl.data) = Len(x.data)
        /\ \A i \in 1..Len(x.data) :
              /\ Len(y_nl.data[i]) = Len(x.data[i])
              /\ \A n \in 1..(IF pc = "procesado" THEN Len(x.data[i]) ELSE 3) :
                    /\ y_nl.data[i][n] = RMul(x.data[i][n], x.data[i][n])
                    /\ y_nl.data[i][n][1] >= 0
              /\ SubSeq(x.data[i], 1, 3) = <<<<-2, 1>>, <<0, 1>>, <<3, 1>>>> =>
                    SubSeq(y_nl.data[i], 1, 3) = <<<<4, 1>>, <<0, 1>>, <<9, 1>>>>

C2_Witness ==
    /\ pc = "procesado"
    /\ x.shape = <<2, ColumnasDoc>>
    /\ n_realizaciones = 2
    /\ SubSeq(x.data[2], 1, 3) = <<<<-2, 1>>, <<0, 1>>, <<3, 1>>>>
    /\ SubSeq(y_nl.data[2], 1, 3) = <<<<4, 1>>, <<0, 1>>, <<9, 1>>>>
    /\ y_nl.data[1] # y_fir.data[1]

----------------------------------------------------------------------------

\* the sum over the rows 1..i of column k (k counted from 0)
RECURSIVE SumaColumna(_, _, _)
SumaColumna(arr, k, i) ==
    IF i = 0 THEN RInt(0) ELSE RAdd(SumaColumna(arr, k, i - 1), arr.data[i][k + 1])

\* the arithmetic mean over the realization axis at column t, t as numpy takes it
MediaAritmetica(arr, t) ==
    LET k == IF t < 0 THEN t + arr.shape[2] ELSE t
    IN  RDiv(SumaColumna(arr, k, arr.shape[1]), RInt(arr.shape[1]))

\* what m thousandths and v differ by, in units of 1/(1000 * v[2])
Desvio3(m, v) ==
    LET ent == v[1] \div v[2]
    IN  1000 * (v[1] - ent * v[2]) - (m - 1000 * ent) * v[2]

\* m thousandths is v to three decimals: no thousandth is nearer to v
EsRedondeo3(m, v) == 2 * AbsInt(Desvio3(m, v)) <= v[2]

\* the thousandths m are exactly v
EsExacto3(m, v) == Desvio3(m, v) = 0

\* the text reports t1, t2, the two means and the absolute difference, to three
\* decimals
TextoDe(txt, titulo, arr, t1, t2) ==
    /\ Len(txt) = 6
    /\ txt[1] = titulo /\ txt[2] = t1 /\ txt[4] = t2
    /\ EsRedondeo3(txt[3], MediaAritmetica(arr, t1))
    /\ EsRedondeo3(txt[5], MediaAritmetica(arr, t2))
    /\ EsRedondeo3(txt[6], RAbs(RSub(MediaAritmetica(arr, t2), MediaAritmetica(arr, t1))))

\* the text reports the means and the absolute difference themselves
TextoExactoDe(txt, arr, t1, t2) ==
    /\ Len(txt) = 6
    /\ EsExacto3(txt[3], MediaAritmetica(arr, t1))
    /\ EsExacto3(txt[5], MediaAritmetica(arr, t2))
    /\ EsExacto3(txt[6], RAbs(RSub(MediaAritmetica(arr, t2), MediaAritmetica(arr, t1))))

MarcadoresEn(t1, t2) ==
    /\ vline1_fir = <<t1, t1>> /\ vline1_nl = <<t1, t1>>
    /\ vline2_fir = <<t2, t2>> /\ vline2_nl = <<t2, t2>>

\* update(f) raises: y_fir has no second axis, or a column is out of range
Levanta(f) ==
    \/ n_realizaciones = 0
    \/ f < -LargoTiempo \/ f >= LargoTiempo
    \/ f + tau < -LargoTiempo

\* C3 as stated, and only for a frame and a lag that are not negative: after a
\* call update(f) with f + tau < 1000 that returned, the markers are at f and
\* f + tau and the texts report the very means and their absolute difference.
C3_Original ==
    (/\ ult # <<>> /\ ult[1].frame + tau < LimiteT2 /\ ult[1].res = "ok"
     /\ ult[1].frame >= 0 /\ tau >= 0) =>
        /\ MarcadoresEn(ult[1].frame, ult[1].frame + tau)
        /\ TextoExactoDe(txt1, y_fir, ult[1].frame, ult[1].frame + tau)
        /\ TextoExactoDe(txt2, y_nl, ult[1].frame, ult[1].frame + tau)

\* C3, amended: a call update(f) with f + tau < 1000 raises IndexError, moving
\* nothing, when the ensemble has no rows or a column index is out of range;
\* otherwise it leaves the t1 markers of both panels at f, the t2 markers at
\* f + tau, and in each panel's text the arithmetic means over the realizations
\* of that panel's ensemble at columns t1 and t2 and the absolute value of their
\* difference, each rounded to three decimals.
C3_Medias ==
    (ult # <<>> /\ ult[1].frame + tau < LimiteT2) =>
        LET f == ult[1].frame
        IN  /\ ult[1].res = (IF Levanta(f) THEN "raise" ELSE "ok")
            /\ ult[1].res = "raise" => err = "IndexError" /\ pc = "terminado"
            /\ ult[1].res = "ok" =>
                  /\ MarcadoresEn(f, f + tau)
                  /\ TextoDe(txt1, "Media FIR", y_fir, f, f + tau)
                  /\ TextoDe(txt2, "Media x2", y_nl, f, f + tau)

C3_Witness ==
    /\ ult # <<>>
    /\ ult[1].res = "ok"
    /\ ult[1].frame = 10
    /\ tau = TauScript
    /\ n_realizaciones = 2
    /\ MarcadoresEn(10, 110)
    /\ TextoDe(txt1, "Media FIR", y_fir, 10, 110)
    /\ ~TextoExactoDe(txt1, y_fir, 10, 110)

\* C4: a call update(f) with f + tau >= 1000 takes the skip branch: it returns
\* the empty list, the four markers and the two texts keep their values, nothing
\* is raised, and the same call made again leaves the state as it is.
C4_Salto ==
    /\ [](ult # <<>> /\ ult[1].frame + tau >= LimiteT2 =>
            /\ ult[1].res = "skip"
            /\ ult[1].ret = <<>>
            /\ Resultado(ult[1].frame).res = "skip"
            /\ Resultado(ult[1].frame).ret = ult[1].ret)
    /\ [][(ult' # <<>> /\ ult'[1].frame + tau >= LimiteT2) =>
            /\ marcadores' = marcadores
            /\ textos' = textos
            /\ err' = err
            /\ pc' = pc]_vars

C4_Witness ==
    /\ ult # <<>>
    /\ ult[1].frame = 900
    /\ tau = TauScript
    /\ ult[1].res = "skip"
    /\ pc = "figura"
    /\ MarcadoresEn(899, 999)
    /\ Len(txt1) = 6

----------------------------------------------------------------------------

\* the frame handed to update last
UltimoFrame == ult[1].frame

\* the largest multiple of 10 below 1000 - tau
MayorMultiplo ==
    CHOOSE m \in 0..FinFrames :
        m % PasoFrames = 0 /\ m < FinFrames - tau /\ m + PasoFrames >= FinFrames - tau

PasadaCompleta == Len(Frames) > 0 /\ frame_seq = Len(Frames) /\ ult # <<>>

\* C6 as stated: once update has been invoked for the last frame of the
\* sequence, it is not invoked again for an earlier frame.
C6_Original ==
    [][PasadaCompleta => ult'[1].frame >= UltimoFrame]_vars

\* C6, amended: one pass over the frames is finite (at most 100 frames), but
\* the animation does not end with it: repeat is left at its default, so after
\* the last frame a new pass starts, only then, from frame 0, and only while
\* the window is open; once the window has been closed update is not invoked
\* again and the markers and texts stay as they are.
C6_Repite ==
    /\ [](Len(Frames) <= 100 /\ frame_seq <= Len(Frames))
    /\ [][pasada' > pasada /\ pasada >= 1 =>
            /\ frame_seq = Len(Frames)
            /\ frame_seq' = 0
            /\ exp \in ventanas
            /\ Len(Frames) > 0 => ult'[1].frame = 0]_vars
    /\ [][(pc \in {"show", "retorno"} /\ ~(exp \in ventanas)) =>
            /\ ult' = ult
            /\ marcadores' = marcadores
            /\ textos' = textos
            /\ frame_seq' = frame_seq
            /\ pasada' = pasada
            /\ ventanas' = ventanas]_vars

C6_Witness ==
    /\ tau = 989
    /\ n_realizaciones >= 1
    /\ pasada = 2
    /\ frame_seq = 0
    /\ exp \in ventanas
    /\ ult # <<>>
    /\ UltimoFrame = 0
    /\ ult[1].res = "ok"
    /\ MarcadoresEn(0, 989)

----------------------------------------------------------------------------

\* C7: the three experiments run one after another, in their order: an
\* experiment is generated and entered only when the one before has returned
\* with its window closed, no window but the running experiment's is ever open,
\* and none is open while an ensemble is generated or processed.
C7_Secuencial ==
    /\ [](/\ ventanas \subseteq {exp}
          /\ Cardinality(ventanas) <= 1
          /\ exp \in 0..3
          /\ pc \in {"script", "llamada", "procesado", "figura", "retorno"} =>
                ventanas = {})
    /\ [][exp' # exp =>
            /\ exp' = exp + 1
            /\ ventanas = {}
            /\ exp >= 1 => pc = "retorno" /\ ult # <<>>
            /\ y_fir' = Unbound
            /\ pc' = "llamada"]_vars

C7_Witness ==
    /\ exp = 3
    /\ ventanas = {3}
    /\ pc = "show"
    /\ pasada = 2
    /\ ult # <<>>
    /\ UltimoFrame = 890

----------------------------------------------------------------------------

XFilas == x.shape[1]
XColumnas == x.shape[2]

\* the ways an input can be malformed
TauGrande == tau >= LimiteT2
SinRealizaciones == n_realizaciones = 0
FormaMala == XColumnas # ColumnasDoc \/ XFilas # n_realizaciones

\* C8 as stated, for the first of its three inputs and in its weakest reading:
\* a call with tau >= 1000, its ensemble well formed, does not complete as a
\* normal run, that is, does not return with nothing raised.
C8_Original ==
    (TauGrande /\ ~SinRealizaciones /\ ~FormaMala) => ~(pc = "retorno" /\ err = "none")

\* C8, amended: nothing is validated, and an input fails only where a routine
\* trips over it.  a = 0 raises ZeroDivisionError; more realizations asked for
\* than x has rows raise IndexError in the FIR step; a column count other than
\* 1000 with at least one realization raises ValueError at the first plot: all
\* three end the script before any window.  Zero realizations raise IndexError
\* inside update at the first frame drawn, hence only when tau < 1000, and no
\* marker moves.  tau >= 1000 alone raises nothing: the frame sequence is
\* empty, update is never invoked and the call returns as a normal run; so
\* does a call with fewer realizations asked for than x has rows.
C8_Fallos ==
    /\ a = 0 => (pc # "llamada" => pc = "terminado" /\ err = "ZeroDivisionError")
    /\ (a # 0 /\ n_realizaciones > XFilas) =>
          (pc # "llamada" => pc = "terminado" /\ err = "IndexError" /\ y_fir = Unbound)
    /\ (a # 0 /\ n_realizaciones <= XFilas /\ n_realizaciones >= 1
             /\ XColumnas # ColumnasDoc) =>
          /\ pc \in {"llamada", "procesado", "terminado"}
          /\ pc = "terminado" => err = "ValueError" /\ ventanas = {} /\ fir_lines = <<>>
    /\ (a # 0 /\ n_realizaciones = 0 /\ tau < LimiteT2) =>
          /\ pc \in {"llamada", "procesado", "figura"} => err = "none"
          /\ pc \in {"show", "retorno", "terminado"} =>
                /\ err = "IndexError"
                /\ ult[1].res = "raise"
                /\ frame_seq = 0
                /\ MarcadoresEn(0, 0)
                /\ txt1 = <<"">> /\ txt2 = <<"">>
    /\ (a # 0 /\ n_realizaciones <= XFilas
             /\ (n_realizaciones = 0 \/ XColumnas = ColumnasDoc)
             /\ (tau >= LimiteT2 \/ n_realizaciones >= 1)) =>
          /\ err = "none"
          /\ pc # "terminado"
          /\ tau >= LimiteT2 => ult = <<>> /\ Len(Frames) = 0
          /\ (tau >= LimiteT2 /\ pc \in {"show", "retorno"}) => MarcadoresEn(0, 0)

C8_Witness ==
    /\ tau = 1000
    /\ x.shape = <<2, ColumnasDoc>>
    /\ n_realizaciones = 2
    /\ pc = "retorno"
    /\ err = "none"
    /\ pasada = 2
    /\ ult = <<>>
    /\ MarcadoresEn(0, 0)

----------------------------------------------------------------------------

\* the shape an array's rows give it
FormaReal(arr) ==
    IF Len(arr.data) = 0 THEN <<0>> ELSE <<Len(arr.data), Len(arr.data[1])>>

\* C9 as stated, and only for the calls whose x is (n_realizaciones, 1000) as
\* the docstring has it: once processed, y_fir and y_nl each have the shape of x.
C9_Original ==
    (y_fir # Unbound /\ ~FormaMala) => y_fir.shape = x.shape /\ y_nl.shape = x.shape

\* C9, amended: y_nl has the shape of x.  y_fir has n_realizaciones rows, each
\* as long as a row of x, so it has the shape of x exactly when
\* n_realizaciones is the row count of x and is not 0; with n_realizaciones = 0
\* it is the empty 1-D array.  Once computed, neither array changes, nor does x.
C9_Forma ==
    /\ [](y_fir # Unbound =>
            /\ y_nl.shape = x.shape
            /\ \A i \in 1..Len(y_nl.data) : Len(y_nl.data[i]) = XColumnas
            /\ Len(y_nl.data) = XFilas
            /\ n_realizaciones >= 1 =>
                  /\ y_fir.shape = <<n_realizaciones, XColumnas>>
                  /\ FormaReal(y_fir) = y_fir.shape
                  /\ \A i \in 1..Len(y_fir.data) : Len(y_fir.data[i]) = XColumnas
            /\ n_realizaciones = 0 => y_fir.shape = <<0>> /\ y_fir.data = <<>>
            /\ y_fir.shape = x.shape <=>
                  (n_realizaciones = XFilas /\ n_realizaciones >= 1))
    /\ [][y_fir # Unbound => y_fir' = y_fir /\ y_nl' = y_nl /\ x' = x]_vars

C9_Witness ==
    /\ x.shape = <<2, ColumnasDoc>>
    /\ n_realizaciones = 2
    /\ y_fir.shape = <<2, ColumnasDoc>>
    /\ y_nl.shape = <<2, ColumnasDoc>>
    /\ pc = "show"
    /\ frame_seq = 2
    /\ ult[1].res = "ok"

----------------------------------------------------------------------------

\* C10 as stated, and only for the calls whose x is (n_realizaciones, 1000):
\* for 0 <= tau < 1000, in every state after the first frame handed to update
\* the frame is in range, the skip branch was not taken, the markers of the two
\* panels agree and t2 - t1 = tau.
C10_Original ==
    (tau >= 0 /\ tau < LimiteT2 /\ ult # <<>> /\ ~FormaMala) =>
        /\ UltimoFrame >= 0 /\ UltimoFrame + tau <= 999
        /\ ult[1].res # "skip"
        /\ vline1_fir = vline1_nl /\ vline2_fir = vline2_nl
        /\ vline2_fir[1] - vline1_fir[1] = tau

\* C10, amended: for 0 <= tau < 1000 every frame f of the driver has 0 <= f and
\* f + tau <= 999, so update never takes the skip branch and both columns are
\* in range; the markers of the two panels always agree, all four are at 0
\* until update has completed once, and from then on t1 is at the last frame
\* and t2 - t1 = tau.  update completes unless n_realizaciones = 0, when it
\* raises at the first frame and the markers stay at 0.
C10_Rango ==
    /\ (tau >= 0 /\ tau < LimiteT2) =>
          /\ \A k \in 1..Len(Frames) : Frames[k] >= 0 /\ Frames[k] + tau <= 999
          /\ Len(Frames) >= 1
    /\ (tau >= 0 /\ tau < LimiteT2 /\ ult # <<>>) =>
          /\ UltimoFrame >= 0 /\ UltimoFrame + tau <= 999
          /\ ult[1].res # "skip"
          /\ ult[1].res = "raise" <=> n_realizaciones = 0
          /\ ult[1].res = "ok" =>
                /\ ColOK(y_fir, UltimoFrame) /\ ColOK(y_fir, UltimoFrame + tau)
                /\ ColOK(y_nl, UltimoFrame) /\ ColOK(y_nl, UltimoFrame + tau)
                /\ vline1_fir = <<UltimoFrame, UltimoFrame>>
                /\ vline2_fir[1] - vline1_fir[1] = tau
          /\ ult[1].res = "raise" => MarcadoresEn(0, 0)
    /\ vline1_fir = vline1_nl /\ vline2_fir = vline2_nl
    /\ (pc \in {"figura", "show", "retorno"} /\ ult = <<>>) => MarcadoresEn(0, 0)

C10_Witness ==
    /\ tau = 989
    /\ ult # <<>>
    /\ UltimoFrame = 10
    /\ ult[1].res = "ok"
    /\ vline1_fir = <<10, 10>> /\ vline1_nl = <<10, 10>>
    /\ vline2_fir = <<999, 999>> /\ vline2_nl = <<999, 999>>

====
